---- MODULE Spec2Model ----
(***************************************************************************)
(* State-machine model of the StatefulSetMigration reconciler              *)
(* (internal/controller/reconciler.go) together with the parts of the two  *)
(* clusters and of the cloud volume service that it reads and writes.      *)
(*                                                                         *)
(* One reconcile is one action, except reconcileMigratingPods/migratePod,  *)
(* whose three blocking polls (pod deletion, volume detach, pod ready)     *)
(* are positions of the in-flight reconcile (pc) so that the clusters and  *)
(* the cloud can move while the controller waits.                          *)
(***************************************************************************)
EXTENDS Integers, Sequences, FiniteSets, TLC

\* Largest spec.replicas of the source StatefulSet that is explored.
MaxReplicas == 2

\* Poll intervals and timeouts of a wait are 1..MaxWait units of time.
MaxWait == 3

\* Volume ids given to the translator have at most MaxIdLen parts.
MaxIdLen == 3

\* Goroutines that call the ClientManager at the same time.
MaxCallers == 2

\* Clients createClientFromKubeconfig builds in one behaviour.
MaxClients == 2

\* Kinds of disturbance a behaviour may contain.
\*   api      a cluster or cloud API call returns an error
\*   slow     a poll loop reaches its deadline although the awaited event
\*            could still happen
\*   write    a status write (Status().Update / Update) is rejected
\*   crash    the controller process stops in the middle of a reconcile
\*   operator the operator asks for the deletion of the migration resource
\*   config   the destination namespace or headless service is missing
AllFaults == {"api", "config", "slow", "write", "crash", "operator", "cancel"}
NoFaults == {}
Interruptions == {"write", "crash"}

\* Name of the claim in the source namespace that is not one of the group's.
Foreign == -1

Terminal == {"Completed", "Failed"}
Active == {"Pending", "PreFlightChecks", "FreezingSource", "MigratingPods", "Finalizing"}

VARIABLES
    crState,        \* migration resource: "present", "deleting" (deletionTimestamp set), "gone"
    finalizer,      \* MigrationFinalizer is in metadata.finalizers
    status,         \* the persisted .status of the migration resource
    pc,             \* position of the in-flight reconcile ("idle" when none)
    idx,            \* migratePod's index argument of the in-flight reconcile
    stale,          \* the resource changed since the in-flight reconcile read it
    srcSTS,         \* source StatefulSet: "Present", "Deleting" (orphan finalizer pending), "Absent"
    srcPod,         \* source pods, by index: "Running", "Terminating", "Absent"
    srcPVC,         \* source claims, by name: [exists, bound]
    srcPV,          \* source volumes, by name: [exists, policy]
    vol,            \* cloud volumes, by index: "in-use-src", "available", "in-use-dst"
    dstPV,          \* destination volume migrated-<ns>-data-<sts>-<i>: writes of it (0: absent)
    dstPVC,         \* destination claim data-<sts>-<i>: writes of it (0: absent)
    dstSTS,         \* destination StatefulSet: [exists, replicas]
    dstPod,         \* destination pod <sts>-<i> is Ready
    readyObserved,  \* history: indices whose waitForPodReady returned nil
    lastStep        \* history: what the last controller step did remotely

mainVars == <<crState, finalizer, status, pc, idx, stale, srcSTS, srcPod, srcPVC, srcPV,
              vol, dstPV, dstPVC, dstSTS, dstPod, readyObserved, lastStep>>

\* The parts that are modelled on their own, apart from a migration: the
\* wait for a cloud volume (WaitForVolumeDetach), the translation of a volume
\* and its claim (TranslatePV), and the cache of cluster clients
\* (ClientManager).
VARIABLES
    ebs,            \* state of the cloud volume the waiter polls (types.VolumeState)
    wait,           \* the call of WaitForVolumeDetach: position, config, clock, reads, result
    xlate,          \* the call of TranslatePV: its arguments and what it returned
    clientCache,    \* ClientManager.clientCache: cache key -> client (0 = no entry)
    cacheMu,        \* ClientManager.cacheMu: who holds the read lock, who the write lock
    caller,         \* per goroutine: the ClientManager call it is in and where
    minted          \* number of clients createClientFromKubeconfig has built

waitVars == <<ebs, wait>>

registryVars == <<clientCache, cacheMu, caller, minted>>

auxVars == <<waitVars, xlate, registryVars>>

vars == <<mainVars, auxVars>>

srcVars == <<srcSTS, srcPod, srcPVC, srcPV>>
dstVars == <<dstPV, dstPVC, dstSTS, dstPod>>
crVars == <<crState, finalizer>>

\* spec.replicas of the source StatefulSet (one pod, claim and volume per index).
Replicas == Cardinality(DOMAIN srcPod)
Indices == DOMAIN srcPod

EmptyStatus ==
    [phase |-> "", currentIndex |-> 0, totalReplicas |-> 0,
     preservedPVs |-> <<>>, migratedPods |-> <<>>,
     lastError |-> "", startTime |-> FALSE, completionTime |-> FALSE,
     conditions |-> {}]

Range(s) == {s[k] : k \in DOMAIN s}

\* The claims of the source namespace in the order List returns them.
ClaimList ==
    LET group == [k \in 1..Replicas |-> k - 1]
    IN IF Foreign \in DOMAIN srcPVC THEN <<Foreign>> \o group ELSE group

\* No call of WaitForVolumeDetach is being looked at.
NoWait ==
    [pc |-> "none", pollInterval |-> 0, timeout |-> 0, elapsed |-> 0, ticked |-> FALSE,
     cancelled |-> FALSE, reads |-> <<>>, result |-> ""]

\* No call of TranslatePV is being looked at.
NoTranslation == [pc |-> "none"]

\* A ClientManager nobody calls: NewClientManager's empty cache.
NoRegistry ==
    /\ clientCache = <<>>
    /\ cacheMu = [readers |-> {}, writer |-> 0]
    /\ caller = <<>>
    /\ minted = 0

AuxIdle ==
    /\ ebs = "in-use"
    /\ wait = NoWait
    /\ xlate = NoTranslation
    /\ NoRegistry

Init ==
    /\ AuxIdle
    /\ crState = "present"
    /\ finalizer = FALSE
    /\ status = EmptyStatus
    /\ pc = "idle"
    /\ idx = 0
    /\ stale = FALSE
    /\ srcSTS = "Present"
    /\ \E n \in 1..MaxReplicas, policy \in {"Delete", "Retain"},
          foreign \in {"none", "bound", "unbound"} :
          LET claims == (0..(n - 1)) \cup (IF foreign = "none" THEN {} ELSE {Foreign})
              pvs == (0..(n - 1)) \cup (IF foreign = "bound" THEN {Foreign} ELSE {})
          IN /\ srcPod = [i \in 0..(n - 1) |-> "Running"]
             /\ srcPVC = [c \in claims |->
                            [exists |-> TRUE, bound |-> ~(c = Foreign /\ foreign = "unbound")]]
             /\ srcPV = [p \in pvs |-> [exists |-> TRUE, policy |-> policy]]
             /\ vol = [i \in 0..(n - 1) |-> "in-use-src"]
             /\ dstPV = [i \in 0..(n - 1) |-> 0]
             /\ dstPVC = [i \in 0..(n - 1) |-> 0]
             /\ dstPod = [i \in 0..(n - 1) |-> FALSE]
    /\ dstSTS \in {[exists |-> FALSE, replicas |-> 0], [exists |-> TRUE, replicas |-> 0]}
    /\ readyObserved = {}
    /\ lastStep = "none"

-----------------------------------------------------------------------------
(* Helpers shared by the handlers *)

\* Outcomes of a write of the migration resource by a reconcile that runs in
\* one step: the write succeeds unless the API server rejects it.
WriteOutcomes(F) == {TRUE} \cup (IF "write" \in F THEN {FALSE} ELSE {})

\* Outcomes of the status write of a reconcile that has been in flight: a
\* write carrying an outdated resourceVersion is always rejected (conflict).
LateWriteOutcomes(F) == IF stale \/ crState = "gone" THEN {FALSE} ELSE WriteOutcomes(F)

\* Result of one remote call that cannot legitimately miss.
CallOutcomes(F) == {"ok"} \cup (IF "api" \in F THEN {"err"} ELSE {})

\* Result of a Get of an object that is present (found) or not (notfound).
GetOutcomes(F, present) ==
    {IF present THEN "found" ELSE "notfound"} \cup (IF "api" \in F THEN {"err"} ELSE {})

\* setCondition(m, type, True, ...): one condition per type.
SetCondition(st, condType) == [st EXCEPT !.conditions = @ \cup {condType}]

\* A failure that is recorded but does not end the migration.
FailedStatusKeepsPhase(st, reason) == [st EXCEPT !.lastError = reason]

\* A failure written without its completion time.
FailedStatusNoCompletionTime(st, reason) ==
    SetCondition([st EXCEPT !.phase = "Failed", !.lastError = reason], "Failed")

\* failMigration: the status it tries to persist.
FailedStatus(st, reason) ==
    SetCondition([st EXCEPT !.phase = "Failed", !.lastError = reason,
                            !.completionTime = TRUE], "Failed")

\* r.Status().Update(ctx, m): the persisted status after the call.
StatusUpdate(st, ok) == IF ok THEN st ELSE status

\* The dispatch of Reconcile reaches the phase handlers only for a resource
\* that exists, is not being deleted, carries the finalizer and has a phase.
Dispatch(phase) ==
    /\ pc = "idle"
    /\ crState = "present"
    /\ finalizer
    /\ status.phase = phase

-----------------------------------------------------------------------------
(* Reconcile: the steps before the dispatch *)

\* The resource is gone: Get returns NotFound and Reconcile returns.
ReconcileNotFound ==
    /\ pc = "idle"
    /\ crState = "gone"
    /\ lastStep' = "notfound"
    /\ UNCHANGED <<crVars, status, pc, idx, stale, srcVars, vol, dstVars, readyObserved>>
    /\ UNCHANGED auxVars

\* handleDeletion: release the finalizer, whatever the phase; the API server
\* then removes the resource.
HandleDeletion(F) ==
    /\ pc = "idle"
    /\ crState = "deleting"
    /\ \E ok \in WriteOutcomes(F) :
          IF finalizer /\ ok
          THEN finalizer' = FALSE /\ crState' = "gone"
          ELSE UNCHANGED crVars
    /\ lastStep' = "deletion"
    /\ UNCHANGED <<status, pc, idx, stale, srcVars, vol, dstVars, readyObserved>>
    /\ UNCHANGED auxVars

\* Add the finalizer if not present, then requeue.
AddFinalizer(F) ==
    /\ pc = "idle"
    /\ crState = "present"
    /\ ~finalizer
    /\ \E ok \in WriteOutcomes(F) : finalizer' = ok
    /\ lastStep' = "finalizer"
    /\ UNCHANGED <<crState, status, pc, idx, stale, srcVars, vol, dstVars, readyObserved>>
    /\ UNCHANGED auxVars

\* Initialize status if needed.
InitializeStatus(F) ==
    /\ Dispatch("")
    /\ \E ok \in WriteOutcomes(F) :
          status' = StatusUpdate([status EXCEPT !.phase = "Pending"], ok)
    /\ lastStep' = "initialize"
    /\ UNCHANGED <<crVars, pc, idx, stale, srcVars, vol, dstVars, readyObserved>>
    /\ UNCHANGED auxVars

\* A controller that retries a failed migration by itself.
TerminalStatusRetry(st) == IF st.phase = "Failed" THEN [st EXCEPT !.phase = "MigratingPods"] ELSE st

\* Completed, Failed: nothing more to do.
TerminalStatus(st) == st

ReconcileTerminal ==
    /\ \E phase \in Terminal : Dispatch(phase)
    /\ status' = TerminalStatus(status)
    /\ lastStep' = "terminal"
    /\ UNCHANGED <<crVars, pc, idx, stale, srcVars, vol, dstVars, readyObserved>>
    /\ UNCHANGED auxVars

-----------------------------------------------------------------------------
(* Pending *)

\* A controller that starts freezing without the pre-flight checks.
PendingStatusSkipsPreFlight(st) == [st EXCEPT !.phase = "FreezingSource", !.startTime = TRUE]

PendingStatus(st) == [st EXCEPT !.phase = "PreFlightChecks", !.startTime = TRUE]

ReconcilePending(F) ==
    /\ Dispatch("Pending")
    /\ \E ok \in WriteOutcomes(F) : status' = StatusUpdate(PendingStatus(status), ok)
    /\ lastStep' = "pending"
    /\ UNCHANGED <<crVars, pc, idx, stale, srcVars, vol, dstVars, readyObserved>>
    /\ UNCHANGED auxVars

-----------------------------------------------------------------------------
(* PreFlightChecks *)

\* What the reads of one pre-flight reconcile return. The source and the
\* destination StatefulSet are read from the clusters' state; the destination
\* namespace and headless service, spec.force and the source group's
\* serviceName are inputs of the reconcile.
PreFlightInputs(F) ==
    [srcClient : CallOutcomes(F), dstClient : CallOutcomes(F),
     srcConn : CallOutcomes(F), dstConn : CallOutcomes(F),
     srcSTS : GetOutcomes(F, srcSTS # "Absent"),
     dstNS : {"found"} \cup (IF "config" \in F THEN {"notfound"} ELSE {})
                       \cup (IF "api" \in F THEN {"err"} ELSE {}),
     dstSTS : GetOutcomes(F, dstSTS.exists),
     serviceName : {"", "svc"},
     svc : {"found"} \cup (IF "config" \in F THEN {"notfound"} ELSE {})
                     \cup (IF "api" \in F THEN {"err"} ELSE {}),
     force : BOOLEAN]

\* Pre-flight checks without the check for a conflicting destination group.
PreFlightStatusIgnoresConflict(st, in, replicas) ==
    LET captured == [st EXCEPT !.totalReplicas = replicas]
    IN IF \E c \in {in.srcClient, in.dstClient, in.srcConn, in.dstConn} : c # "ok"
       THEN FailedStatus(st, "Failed to connect to source cluster")
       ELSE IF in.srcSTS # "found" THEN FailedStatus(st, "Source StatefulSet not found")
       ELSE IF in.dstNS # "found"
       THEN FailedStatus(captured, "Destination namespace does not exist")
       ELSE SetCondition([captured EXCEPT !.phase = "FreezingSource"], "PreFlightChecks")

\* Pre-flight checks that require the headless service whatever spec.force.
PreFlightStatusForceIgnored(st, in, replicas) ==
    LET captured == [st EXCEPT !.totalReplicas = replicas]
    IN IF \E c \in {in.srcClient, in.dstClient, in.srcConn, in.dstConn} : c # "ok"
       THEN FailedStatus(st, "Failed to connect to source cluster")
       ELSE IF in.srcSTS # "found" THEN FailedStatus(st, "Source StatefulSet not found")
       ELSE IF in.dstNS # "found"
       THEN FailedStatus(captured, "Destination namespace does not exist")
       ELSE IF in.dstSTS # "notfound"
       THEN FailedStatus(captured, "StatefulSet already exists in destination namespace")
       ELSE IF in.serviceName # "" /\ in.svc = "notfound"
       THEN FailedStatus(captured, "Headless service not found in destination namespace")
       ELSE IF in.serviceName # "" /\ in.svc = "err"
       THEN FailedStatus(captured, "Failed to check destination service")
       ELSE SetCondition([captured EXCEPT !.phase = "FreezingSource"], "PreFlightChecks")

\* reconcilePreFlightChecks: the status it tries to persist.
PreFlightStatus(st, in, replicas) ==
    LET captured == [st EXCEPT !.totalReplicas = replicas]
    IN IF in.srcClient # "ok" THEN FailedStatus(st, "Failed to connect to source cluster")
       ELSE IF in.dstClient # "ok"
       THEN FailedStatus(st, "Failed to connect to destination cluster")
       ELSE IF in.srcConn # "ok"
       THEN FailedStatus(st, "Source cluster connectivity check failed")
       ELSE IF in.dstConn # "ok"
       THEN FailedStatus(st, "Destination cluster connectivity check failed")
       ELSE IF in.srcSTS # "found" THEN FailedStatus(st, "Source StatefulSet not found")
       ELSE IF in.dstNS = "notfound"
       THEN FailedStatus(captured, "Destination namespace does not exist")
       ELSE IF in.dstNS = "err"
       THEN FailedStatus(captured, "Failed to check destination namespace")
       ELSE IF in.dstSTS = "found"
       THEN FailedStatus(captured, "StatefulSet already exists in destination namespace")
       ELSE IF in.dstSTS = "err"
       THEN FailedStatus(captured, "Failed to check destination StatefulSet")
       ELSE IF in.serviceName # "" /\ in.svc = "notfound" /\ ~in.force
       THEN FailedStatus(captured, "Headless service not found in destination namespace")
       ELSE IF in.serviceName # "" /\ in.svc = "err"
       THEN FailedStatus(captured, "Failed to check destination service")
       ELSE SetCondition([captured EXCEPT !.phase = "FreezingSource"], "PreFlightChecks")

\* History: what a pre-flight reconcile found when every check before the
\* one of the headless service had passed.
PreFlightStep(in) ==
    IF \/ \E c \in {in.srcClient, in.dstClient, in.srcConn, in.dstConn} : c # "ok"
       \/ in.srcSTS # "found" \/ in.dstNS # "found" \/ in.dstSTS # "notfound"
    THEN "preflight"
    ELSE IF in.serviceName = "" THEN "preflight-no-service-name"
    ELSE IF in.svc = "notfound"
    THEN IF in.force THEN "preflight-service-missing-force" ELSE "preflight-service-missing"
    ELSE "preflight"

ReconcilePreFlightChecks(F) ==
    /\ Dispatch("PreFlightChecks")
    /\ \E in \in PreFlightInputs(F), ok \in WriteOutcomes(F) :
          /\ status' = StatusUpdate(PreFlightStatus(status, in, Replicas), ok)
          /\ lastStep' = PreFlightStep(in)
    /\ UNCHANGED <<crVars, pc, idx, stale, srcVars, vol, dstVars, readyObserved>>
    /\ UNCHANGED auxVars

-----------------------------------------------------------------------------
(* FreezingSource *)

\* Subsets of S whose remote call fails in one reconcile.
FailingSubsets(F, S) == IF "api" \in F THEN SUBSET S ELSE {{}}

\* The bound claims that List returns, in order.
ListedClaims == SelectSeq(ClaimList, LAMBDA c : srcPVC[c].exists)

\* A patch that removes the volume object instead of keeping it.
PatchedPVDeleted(pv) == [pv EXCEPT !.policy = "Retain", !.exists = FALSE]

\* A patch that is built but never changes the reclaim policy.
PatchedPVUnchanged(pv) == pv

\* Patch to Retain if not already: the volume object after the Update.
PatchedPV(pv) == [pv EXCEPT !.policy = "Retain"]

\* The loop of patchPVsToRetain over the listed claims. pvs is the source
\* cluster's volumes so far, names the accumulated pvNames.
RECURSIVE PatchLoop(_, _, _, _, _)
PatchLoop(list, pvs, names, getFail, updFail) ==
    IF list = <<>> THEN [pvs |-> pvs, names |-> names, err |-> FALSE]
    ELSE LET c == Head(list)
             rest == Tail(list)
         IN IF ~srcPVC[c].bound
            THEN PatchLoop(rest, pvs, names, getFail, updFail)
            ELSE IF c \in getFail \/ ~pvs[c].exists
            THEN PatchLoop(rest, pvs, names, getFail, updFail)
            ELSE IF pvs[c].policy # "Retain"
            THEN IF c \in updFail
                 THEN [pvs |-> pvs, names |-> <<>>, err |-> TRUE]
                 ELSE PatchLoop(rest, [pvs EXCEPT ![c] = PatchedPV(@)],
                                Append(names, c), getFail, updFail)
            ELSE PatchLoop(rest, pvs, Append(names, c), getFail, updFail)

patchPVsToRetain(in) ==
    IF in.list # "ok" THEN [pvs |-> srcPV, names |-> <<>>, err |-> TRUE]
    ELSE PatchLoop(ListedClaims, srcPV, <<>>, in.pvGetFail, in.pvUpdateFail)

\* orphanStatefulSet: the source StatefulSet after the call, and its error.
orphanStatefulSet(in) ==
    IF in.orphanGet = "notfound" THEN [sts |-> srcSTS, err |-> FALSE]
    ELSE IF in.orphanGet = "err" \/ in.orphanDelete # "ok" THEN [sts |-> srcSTS, err |-> TRUE]
    ELSE [sts |-> "Deleting", err |-> FALSE]

FreezeInputs(F) ==
    [srcClient : CallOutcomes(F),
     getSTS : GetOutcomes(F, srcSTS # "Absent"),
     list : CallOutcomes(F),
     pvGetFail : FailingSubsets(F, DOMAIN srcPV),
     pvUpdateFail : FailingSubsets(F, DOMAIN srcPV),
     orphanGet : GetOutcomes(F, srcSTS # "Absent"),
     orphanDelete : CallOutcomes(F)]

\* The status that Freeze persists once the volumes are patched and the
\* group is orphaned.
FrozenStatus(st, names) ==
    SetCondition([st EXCEPT !.preservedPVs = names, !.phase = "MigratingPods",
                            !.currentIndex = 0], "SourceFrozen")

\* reconcileFreezingSource: the status it tries to persist and the source
\* cluster it leaves.
FreezeResult(st, in) ==
    LET patch == patchPVsToRetain(in)
        orphan == orphanStatefulSet(in)
        kept == [st EXCEPT !.preservedPVs = patch.names]
    IN IF in.srcClient # "ok"
       THEN [status |-> FailedStatus(st, "Failed to get source client"),
             pvs |-> srcPV, sts |-> srcSTS]
       ELSE IF in.getSTS # "found"
       THEN [status |-> FailedStatus(st, "Failed to get source StatefulSet"),
             pvs |-> srcPV, sts |-> srcSTS]
       ELSE IF patch.err
       THEN [status |-> FailedStatus(st, "Failed to patch PV reclaim policies"),
             pvs |-> patch.pvs, sts |-> srcSTS]
       ELSE IF orphan.err
       THEN [status |-> FailedStatus(kept, "Failed to orphan StatefulSet"),
             pvs |-> patch.pvs, sts |-> srcSTS]
       ELSE [status |-> FrozenStatus(st, patch.names), pvs |-> patch.pvs, sts |-> orphan.sts]

ReconcileFreezingSource(F) ==
    /\ Dispatch("FreezingSource")
    /\ \E in \in FreezeInputs(F), ok \in WriteOutcomes(F) :
          LET res == FreezeResult(status, in)
          IN /\ status' = StatusUpdate(res.status, ok)
             /\ srcPV' = res.pvs
             /\ srcSTS' = res.sts
    /\ lastStep' = "freeze"
    /\ UNCHANGED <<crVars, pc, idx, stale, srcPod, srcPVC, vol, dstVars, readyObserved>>
    /\ UNCHANGED auxVars

-----------------------------------------------------------------------------
(* MigratingPods *)

\* failMigration at the end of a reconcile that has been in flight.
MigrateFail(F, reason) ==
    /\ \E ok \in LateWriteOutcomes(F) :
          status' = StatusUpdate(FailedStatus(status, reason), ok)
    /\ pc' = "idle"
    /\ stale' = FALSE

\* A loop that stops one index early.
AllMigratedOffByOne(st) == st.currentIndex >= st.totalReplicas - 1

\* m.Status.CurrentIndex >= m.Status.TotalReplicas
AllMigrated(st) == st.currentIndex >= st.totalReplicas

\* All pods migrated, move to finalizing.
ReconcileMigrationDone(F) ==
    /\ Dispatch("MigratingPods")
    /\ AllMigrated(status)
    /\ \E ok \in WriteOutcomes(F) :
          status' = StatusUpdate([status EXCEPT !.phase = "Finalizing"], ok)
    /\ lastStep' = "finalizing"
    /\ UNCHANGED <<crVars, pc, idx, stale, srcVars, vol, dstVars, readyObserved>>
    /\ UNCHANGED auxVars

\* migratePod step 2: resolve the source claim by convention, then its bound
\* volume. The result is "ok" or the error.
ResolveOutcomes(F, i) ==
    LET pvc == GetOutcomes(F, srcPVC[i].exists)
        pv == GetOutcomes(F, srcPV[i].exists)
    IN {IF a # "found" THEN "failed to get source PVC"
        ELSE IF b # "found" THEN "failed to get source PV"
        ELSE "ok" : a \in pvc, b \in pv}

\* Steps 2 and 3 up to the first read of the cloud volume.
ResolveAndWait(F, i) ==
    \E r \in ResolveOutcomes(F, i) :
        IF r = "ok"
        THEN pc' = "waitDetach" /\ idx' = i /\ UNCHANGED <<status, stale>>
        ELSE MigrateFail(F, r) /\ idx' = i

\* A migration that starts with the highest ordinal, as a scale-down does.
MigrateIndexLast(st) == st.totalReplicas - 1

\* The index reconcileMigratingPods hands to migratePod.
MigrateIndex(st) == st.currentIndex

\* What migratePod learned about the source pod before it went on: the Get
\* found it (it is deleted and waited for), returned not-found, or failed.
MigrateStep(srcClient, dstClient, pod) ==
    IF srcClient # "ok" \/ dstClient # "ok" \/ pod = "found" THEN "migrate"
    ELSE IF pod = "notfound" THEN "migrate-pod-absent"
    ELSE "migrate-pod-unread"

\* reconcileMigratingPods with an index left: migratePod up to its first
\* blocking poll. Any error of the Get of the source pod skips the delete.
MigrateStart(F) ==
    /\ Dispatch("MigratingPods")
    /\ ~AllMigrated(status)
    /\ LET i == MigrateIndex(status)
       IN \E srcClient \in CallOutcomes(F), dstClient \in CallOutcomes(F),
             pod \in GetOutcomes(F, srcPod[i] # "Absent"), del \in CallOutcomes(F) :
             /\ lastStep' = MigrateStep(srcClient, dstClient, pod)
             /\ IF srcClient # "ok"
                THEN MigrateFail(F, "failed to get source client") /\ idx' = i /\ UNCHANGED srcPod
                ELSE IF dstClient # "ok"
                THEN /\ MigrateFail(F, "failed to get destination client")
                     /\ idx' = i
                     /\ UNCHANGED srcPod
                ELSE IF pod = "found"
                THEN IF del # "ok"
                     THEN /\ MigrateFail(F, "failed to delete source pod")
                          /\ idx' = i
                          /\ UNCHANGED srcPod
                     ELSE /\ srcPod' = [srcPod EXCEPT ![i] = "Terminating"]
                          /\ pc' = "waitPodDeletion"
                          /\ idx' = i
                          /\ UNCHANGED <<status, stale>>
                ELSE ResolveAndWait(F, i) /\ UNCHANGED srcPod
    /\ UNCHANGED <<crVars, srcSTS, srcPVC, srcPV, vol, dstVars, readyObserved>>
    /\ UNCHANGED auxVars

\* waitForPodDeletion: a tick that finds the pod gone, or fails.
PollPodDeletion(F) ==
    /\ pc = "waitPodDeletion"
    /\ \E pod \in GetOutcomes(F, srcPod[idx] # "Absent") :
          /\ pod # "found"
          /\ IF pod = "notfound"
             THEN ResolveAndWait(F, idx)
             ELSE MigrateFail(F, "failed waiting for pod deletion") /\ UNCHANGED idx
    /\ lastStep' = "pod-gone"
    /\ UNCHANGED <<crVars, srcVars, vol, dstVars, readyObserved>>
    /\ UNCHANGED auxVars

\* Whether the event a poll loop waits for can still happen.
DetachPending(i) == vol[i] = "in-use-src" /\ srcPod[i] # "Running"

ReadyPending(i) ==
    /\ dstSTS.exists /\ i < dstSTS.replicas
    /\ \A j \in Indices : j < i => dstPod[j]
    /\ dstPV[i] > 0 /\ dstPVC[i] > 0
    /\ vol[i] = "available"

\* A poll loop without a deadline.
DeadlineNever(F, pending) == FALSE

\* A poll loop reaches its deadline: always when the event it waits for
\* cannot happen any more, and otherwise only when the cluster is slow.
Deadline(F, pending) == "slow" \in F \/ ~pending

TimeoutPodDeletion(F) ==
    /\ pc = "waitPodDeletion"
    /\ srcPod[idx] # "Absent"
    /\ Deadline(F, srcPod[idx] = "Terminating")
    /\ MigrateFail(F, "failed waiting for pod deletion")
    /\ lastStep' = "timeout"
    /\ UNCHANGED <<crVars, idx, srcVars, vol, dstVars, readyObserved>>
    /\ UNCHANGED auxVars

\* createDestinationStatefulSet (index 0) and scaleDestinationStatefulSet.
createDestinationStatefulSet(F) ==
    {IF a # "found"
     THEN [sts |-> dstSTS, err |-> "source StatefulSet no longer available"]
     ELSE IF dstSTS.exists \/ b # "ok"
     THEN [sts |-> dstSTS, err |-> "failed to create destination StatefulSet"]
     ELSE [sts |-> [exists |-> TRUE, replicas |-> 1], err |-> ""] :
         a \in GetOutcomes(F, srcSTS # "Absent"), b \in CallOutcomes(F)}

\* A scale that adds one replica to the count it read.
scaleDestinationStatefulSetByOne(F, replicas) ==
    {IF a # "found" \/ b # "ok"
     THEN [sts |-> dstSTS, err |-> "failed to scale destination StatefulSet"]
     ELSE [sts |-> [dstSTS EXCEPT !.replicas = @ + 1], err |-> ""] :
         a \in GetOutcomes(F, dstSTS.exists), b \in CallOutcomes(F)}

scaleDestinationStatefulSet(F, replicas) ==
    {IF a # "found" \/ b # "ok"
     THEN [sts |-> dstSTS, err |-> "failed to scale destination StatefulSet"]
     ELSE [sts |-> [dstSTS EXCEPT !.replicas = replicas], err |-> ""] :
         a \in GetOutcomes(F, dstSTS.exists), b \in CallOutcomes(F)}

\* Step 5: create or scale the StatefulSet in the destination.
MaterializeGroup(F, i) ==
    IF i = 0 THEN createDestinationStatefulSet(F) ELSE scaleDestinationStatefulSet(F, i + 1)

\* A gate on the Kubernetes view (the source pod is gone) instead of the cloud.
VolumeDetachedByPodGone(i) == srcPod[i] = "Absent"

\* Whether the read of the cloud volume lets migratePod go on to step 4.
VolumeDetached(i) == vol[i] = "available"

\* Create of an object that has been written n times (0: it is absent): the
\* replies the API server can give, and the object after the call.
CreateOutcomes(F, n) ==
    {IF n > 0 THEN [reply |-> "AlreadyExists", writes |-> n]
              ELSE [reply |-> "Created", writes |-> 1]}
        \cup (IF "api" \in F THEN {[reply |-> "err", writes |-> n]} ELSE {})

\* A create that gives up when the object is already there.
CreateFailedOnExisting(reply) == reply # "Created"

\* err != nil && !apierrors.IsAlreadyExists(err)
CreateFailed(reply) == reply \notin {"Created", "AlreadyExists"}

\* Steps 4 and 5 after WaitForVolumeDetach returned nil: create the volume,
\* then the claim (AlreadyExists tolerated), then create or scale the group.
CreateDestination(F, i) ==
    \E pv \in CreateOutcomes(F, dstPV[i]), pvc \in CreateOutcomes(F, dstPVC[i]),
       grp \in MaterializeGroup(F, i) :
        IF CreateFailed(pv.reply)
        THEN MigrateFail(F, "failed to create destination PV") /\ UNCHANGED dstVars
        ELSE /\ dstPV' = [dstPV EXCEPT ![i] = pv.writes]
             /\ IF CreateFailed(pvc.reply)
                THEN /\ MigrateFail(F, "failed to create destination PVC")
                     /\ UNCHANGED <<dstPVC, dstSTS, dstPod>>
                ELSE /\ dstPVC' = [dstPVC EXCEPT ![i] = pvc.writes]
                     /\ dstSTS' = grp.sts
                     /\ UNCHANGED dstPod
                     /\ IF grp.err # ""
                        THEN MigrateFail(F, grp.err)
                        ELSE pc' = "waitPodReady" /\ UNCHANGED <<status, stale>>

\* WaitForVolumeDetach: a read of the cloud volume that ends the wait.
PollVolumeDetach(F) ==
    /\ pc = "waitDetach"
    /\ \E read \in CallOutcomes(F) :
          IF read # "ok"
          THEN /\ MigrateFail(F, "volume detachment failed")
               /\ lastStep' = "detached"
               /\ UNCHANGED dstVars
          ELSE /\ VolumeDetached(idx)
               /\ CreateDestination(F, idx)
               /\ lastStep' = IF dstPV[idx] > 0 /\ dstPVC[idx] > 0
                              THEN "detached-again" ELSE "detached"
    /\ UNCHANGED <<crVars, idx, srcVars, vol, readyObserved>>
    /\ UNCHANGED auxVars

TimeoutVolumeDetach(F) ==
    /\ pc = "waitDetach"
    /\ vol[idx] # "available"
    /\ Deadline(F, DetachPending(idx))
    /\ MigrateFail(F, "volume detachment failed")
    /\ lastStep' = "timeout"
    /\ UNCHANGED <<crVars, idx, srcVars, vol, dstVars, readyObserved>>
    /\ UNCHANGED auxVars

\* A record put in front of the list instead of appended.
MigratedStatusPrepend(st, i) ==
    [st EXCEPT !.migratedPods = <<[index |-> i, volumeID |-> i]>> \o @,
               !.currentIndex = i + 1]

\* Progress that skips an index.
MigratedStatusSkip(st, i) ==
    [st EXCEPT !.migratedPods = Append(@, [index |-> i, volumeID |-> i]),
               !.currentIndex = i + 2]

\* The last index moves the migration to Finalizing in the same write.
MigratedStatusAndFinalize(st, i) ==
    [st EXCEPT !.migratedPods = Append(@, [index |-> i, volumeID |-> i]),
               !.currentIndex = i + 1,
               !.phase = IF i + 1 >= st.totalReplicas THEN "Finalizing" ELSE @]

\* Progress without its record.
MigratedStatusNoRecord(st, i) == [st EXCEPT !.currentIndex = i + 1]

\* Record successful migration, then CurrentIndex = index + 1.
MigratedStatus(st, i) ==
    [st EXCEPT !.migratedPods = Append(@, [index |-> i, volumeID |-> i]),
               !.currentIndex = i + 1]

\* A wait that is satisfied by the group asking for the pod, Ready or not.
PodReadyWhenRequested(i) == dstSTS.exists /\ i < dstSTS.replicas

\* A wait that is satisfied once the destination volume and claim exist.
PodReadyOnceBound(i) == dstPV[i] > 0 /\ dstPVC[i] > 0

\* Whether a tick of waitForPodReady ends the wait with nil.
PodReady(i) == dstPod[i]

\* waitForPodReady returns nil; reconcileMigratingPods persists the progress.
PollPodReady(F) ==
    /\ pc = "waitPodReady"
    /\ PodReady(idx)
    /\ readyObserved' = readyObserved \cup {idx}
    /\ \E ok \in LateWriteOutcomes(F) :
          status' = StatusUpdate(MigratedStatus(status, idx), ok)
    /\ pc' = "idle"
    /\ stale' = FALSE
    /\ lastStep' = "migrated"
    /\ UNCHANGED <<crVars, idx, srcVars, vol, dstVars>>
    /\ UNCHANGED auxVars

TimeoutPodReady(F) ==
    /\ pc = "waitPodReady"
    /\ ~dstPod[idx]
    /\ Deadline(F, ReadyPending(idx))
    /\ MigrateFail(F, "destination pod not ready")
    /\ lastStep' = "timeout"
    /\ UNCHANGED <<crVars, idx, srcVars, vol, dstVars, readyObserved>>
    /\ UNCHANGED auxVars

\* The controller process stops while a reconcile is in flight; nothing of
\* the reconcile's memory survives.
Crash(F) ==
    /\ "crash" \in F
    /\ pc # "idle"
    /\ pc' = "idle"
    /\ stale' = FALSE
    /\ lastStep' = "crash"
    /\ UNCHANGED <<crVars, status, idx, srcVars, vol, dstVars, readyObserved>>
    /\ UNCHANGED auxVars

\* A status write that goes out under a fresh context.
CancelledWriteOutcomesFreshContext == {TRUE}

\* Outcomes of r.Status().Update(ctx, m) when ctx is already cancelled: the
\* request is not sent.
CancelledWriteOutcomes == {FALSE}

\* The context of the reconcile is cancelled while migratePod is in a poll
\* or in the calls that follow the volume wait: the call in flight returns
\* the context's error (the volume it was creating may have been created),
\* and failMigration writes the status under the same context.
Cancelled(F) ==
    /\ "cancel" \in F
    /\ pc # "idle"
    /\ \E created \in BOOLEAN :
          dstPV' = IF created /\ pc = "waitDetach" /\ VolumeDetached(idx)
                   THEN [dstPV EXCEPT ![idx] = IF @ = 0 THEN 1 ELSE @]
                   ELSE dstPV
    /\ \E ok \in CancelledWriteOutcomes :
          status' = StatusUpdate(FailedStatus(status, "context canceled"), ok)
    /\ pc' = "idle"
    /\ stale' = FALSE
    /\ lastStep' = "cancelled"
    /\ UNCHANGED <<crVars, idx, srcVars, vol, dstPVC, dstSTS, dstPod, readyObserved>>
    /\ UNCHANGED auxVars

-----------------------------------------------------------------------------
(* Finalizing *)

FinalizeInputs(F) ==
    [srcClient : CallOutcomes(F),
     pvcFail : FailingSubsets(F, Indices),
     pvFail : FailingSubsets(F, DOMAIN srcPV)]

\* The source claims Finalize deletes: data-<sts>-i for i < TotalReplicas.
FinalizedClaims(st) == {i \in Indices : i < st.totalReplicas}

\* The source volume objects Finalize deletes.
FinalizedVolumes(st) == Range(st.preservedPVs)

CompletedStatus(st) ==
    SetCondition([st EXCEPT !.phase = "Completed", !.completionTime = TRUE], "Complete")

\* A clean-up that gives up when a delete fails.
FinalizeStatusStrict(st, in) ==
    IF in.srcClient # "ok" THEN FailedStatus(st, "Failed to get source client")
    ELSE IF in.pvcFail # {} THEN FailedStatus(st, "Failed to delete source PVC")
    ELSE IF in.pvFail # {} THEN FailedStatus(st, "Failed to delete source PV")
    ELSE CompletedStatus(st)

\* reconcileFinalizing: the status it tries to persist. Failed deletes are
\* logged only.
FinalizeStatus(st, in) ==
    IF in.srcClient # "ok" THEN FailedStatus(st, "Failed to get source client")
    ELSE CompletedStatus(st)

ReconcileFinalizing(F) ==
    /\ Dispatch("Finalizing")
    /\ \E in \in FinalizeInputs(F), ok \in WriteOutcomes(F) :
          IF in.srcClient # "ok"
          THEN /\ status' = StatusUpdate(FinalizeStatus(status, in), ok)
               /\ UNCHANGED <<srcPVC, srcPV>>
          ELSE /\ srcPVC' = [c \in DOMAIN srcPVC |->
                               IF c \in FinalizedClaims(status) \ in.pvcFail
                               THEN [srcPVC[c] EXCEPT !.exists = FALSE] ELSE srcPVC[c]]
               /\ srcPV' = [p \in DOMAIN srcPV |->
                              IF p \in FinalizedVolumes(status) \ in.pvFail
                              THEN [srcPV[p] EXCEPT !.exists = FALSE] ELSE srcPV[p]]
               /\ status' = StatusUpdate(FinalizeStatus(status, in), ok)
    /\ lastStep' = "finalize"
    /\ UNCHANGED <<crVars, pc, idx, stale, srcSTS, srcPod, vol, dstVars, readyObserved>>
    /\ UNCHANGED auxVars

-----------------------------------------------------------------------------
(* The clusters, the cloud and the operator *)

\* The kubelet ends a deleted source pod.
SourcePodTerminates(i) ==
    /\ srcPod[i] = "Terminating"
    /\ srcPod' = [srcPod EXCEPT ![i] = "Absent"]
    /\ UNCHANGED <<crVars, status, pc, idx, stale, srcSTS, srcPVC, srcPV, vol, dstVars,
                   readyObserved, lastStep>>
    /\ UNCHANGED auxVars

\* The source node releases the device; the cloud reports it available.
CloudDetach(i) ==
    /\ srcPod[i] = "Absent"
    /\ vol[i] = "in-use-src"
    /\ vol' = [vol EXCEPT ![i] = "available"]
    /\ UNCHANGED <<crVars, status, pc, idx, stale, srcVars, dstVars, readyObserved, lastStep>>
    /\ UNCHANGED auxVars

\* The garbage collector finishes the orphaning delete of the source group.
SourceGroupCollected ==
    /\ srcSTS = "Deleting"
    /\ srcSTS' = "Absent"
    /\ UNCHANGED <<crVars, status, pc, idx, stale, srcPod, srcPVC, srcPV, vol, dstVars,
                   readyObserved, lastStep>>
    /\ UNCHANGED auxVars

\* The destination group starts pod i (in order), a destination node attaches
\* the volume of the pre-bound claim, and the pod becomes Ready.
DestinationPodReady(i) ==
    /\ ~dstPod[i]
    /\ ReadyPending(i)
    /\ dstPod' = [dstPod EXCEPT ![i] = TRUE]
    /\ vol' = [vol EXCEPT ![i] = "in-use-dst"]
    /\ UNCHANGED <<crVars, status, pc, idx, stale, srcVars, dstPV, dstPVC, dstSTS,
                   readyObserved, lastStep>>
    /\ UNCHANGED auxVars

\* The operator deletes the migration resource.
OperatorDelete(F) ==
    /\ "operator" \in F
    /\ crState = "present"
    /\ crState' = IF finalizer THEN "deleting" ELSE "gone"
    /\ stale' = (pc # "idle")
    /\ UNCHANGED <<finalizer, status, pc, idx, srcVars, vol, dstVars, readyObserved, lastStep>>
    /\ UNCHANGED auxVars

-----------------------------------------------------------------------------
(* Specifications *)

Controller(F) ==
    \/ ReconcileNotFound
    \/ HandleDeletion(F)
    \/ AddFinalizer(F)
    \/ InitializeStatus(F)
    \/ ReconcilePending(F)
    \/ ReconcilePreFlightChecks(F)
    \/ ReconcileFreezingSource(F)
    \/ ReconcileMigrationDone(F)
    \/ MigrateStart(F)
    \/ PollPodDeletion(F)
    \/ TimeoutPodDeletion(F)
    \/ PollVolumeDetach(F)
    \/ TimeoutVolumeDetach(F)
    \/ PollPodReady(F)
    \/ TimeoutPodReady(F)
    \/ ReconcileFinalizing(F)
    \/ ReconcileTerminal

Environment ==
    \/ \E i \in Indices : SourcePodTerminates(i)
    \/ \E i \in Indices : CloudDetach(i)
    \/ SourceGroupCollected
    \/ \E i \in Indices : DestinationPodReady(i)

Next ==
    \/ Controller(AllFaults)
    \/ Crash(AllFaults)
    \/ Cancelled(AllFaults)
    \/ OperatorDelete(AllFaults)
    \/ Environment

\* Every behaviour of the controller, the clusters and the cloud.
Spec == Init /\ [][Next]_vars

\* The happy path: every API call and every status write succeeds, no poll
\* loop reaches its deadline while the event it waits for can still happen,
\* nobody deletes the resource, and no group of the same name is in the way.
HappyInit == Init /\ ~dstSTS.exists

HappyController ==
    \/ AddFinalizer(NoFaults)
    \/ InitializeStatus(NoFaults)
    \/ ReconcilePending(NoFaults)
    \/ ReconcilePreFlightChecks(NoFaults)
    \/ ReconcileFreezingSource(NoFaults)
    \/ ReconcileMigrationDone(NoFaults)
    \/ MigrateStart(NoFaults)
    \/ PollPodDeletion(NoFaults)
    \/ PollVolumeDetach(NoFaults)
    \/ PollPodReady(NoFaults)
    \/ ReconcileFinalizing(NoFaults)
    \/ ReconcileTerminal

HappyNext == HappyController \/ Environment

\* The workqueue re-invokes a requeued reconcile; the kubelet, the cloud and
\* the garbage collector do their work.
HappySpec == HappyInit /\ [][HappyNext]_vars /\ WF_vars(HappyController) /\ WF_vars(Environment)

\* The happy path, except that a reconcile may be interrupted: the process
\* stops in the middle of it, or its status write is rejected.
ResumeController ==
    \/ AddFinalizer(Interruptions)
    \/ InitializeStatus(Interruptions)
    \/ ReconcilePending(Interruptions)
    \/ ReconcilePreFlightChecks(Interruptions)
    \/ ReconcileFreezingSource(Interruptions)
    \/ ReconcileMigrationDone(Interruptions)
    \/ MigrateStart(Interruptions)
    \/ PollPodDeletion(Interruptions)
    \/ PollVolumeDetach(Interruptions)
    \/ TimeoutVolumeDetach(Interruptions)
    \/ PollPodReady(Interruptions)
    \/ ReconcileFinalizing(Interruptions)
    \/ ReconcileTerminal

ResumeNext == ResumeController \/ Crash(Interruptions) \/ Environment

ResumeSpec == HappyInit /\ [][ResumeNext]_vars

\* A migration that runs to its end: the pre-flight checks may reject the
\* set-up, poll loops may reach their deadlines and status writes may be
\* rejected, but the process is not stopped and nobody deletes the resource.
RunFaults == {"config", "slow", "write"}

RunController ==
    \/ AddFinalizer(RunFaults)
    \/ InitializeStatus(RunFaults)
    \/ ReconcilePending(RunFaults)
    \/ ReconcilePreFlightChecks(RunFaults)
    \/ ReconcileFreezingSource(RunFaults)
    \/ ReconcileMigrationDone(RunFaults)
    \/ MigrateStart(RunFaults)
    \/ PollPodDeletion(RunFaults)
    \/ TimeoutPodDeletion(RunFaults)
    \/ PollVolumeDetach(RunFaults)
    \/ TimeoutVolumeDetach(RunFaults)
    \/ PollPodReady(RunFaults)
    \/ TimeoutPodReady(RunFaults)
    \/ ReconcileFinalizing(RunFaults)
    \/ ReconcileTerminal

RunNext == RunController \/ Environment

\* The write of a reconcile that changes the persisted resource.
WriteAccepted == RunController /\ <<finalizer, status>>' # <<finalizer, status>>

\* The workqueue re-invokes every reconcile that asked for a requeue or
\* returned an error, a running reconcile takes its next step, and a write
\* that is retried again and again is accepted in the end.
RunSpec == Init /\ [][RunNext]_vars /\ WF_vars(RunController) /\ SF_vars(WriteAccepted)

-----------------------------------------------------------------------------
(* WaitForVolumeDetach on its own *)

\* No migration exists: the state of the clusters while another part is
\* looked at on its own.
NoMigration ==
    /\ crState = "gone"
    /\ finalizer = FALSE
    /\ status = EmptyStatus
    /\ pc = "idle"
    /\ idx = 0
    /\ stale = FALSE
    /\ srcSTS = "Absent"
    /\ srcPod = [i \in {} |-> "Running"]
    /\ srcPVC = [c \in {} |-> [exists |-> TRUE, bound |-> TRUE]]
    /\ srcPV = [p \in {} |-> [exists |-> TRUE, policy |-> "Retain"]]
    /\ vol = [i \in {} |-> "in-use-src"]
    /\ dstPV = [i \in {} |-> 0]
    /\ dstPVC = [i \in {} |-> 0]
    /\ dstPod = [i \in {} |-> FALSE]
    /\ dstSTS = [exists |-> FALSE, replicas |-> 0]
    /\ readyObserved = {}
    /\ lastStep = "none"

VolumeStates == {"in-use", "available", "error", "deleting", "deleted"}

\* The context of the wait is done: cancelled by the caller, or past the
\* deadline that WaitForVolumeDetach put on it.
ContextDone(w) == w.cancelled \/ w.elapsed >= w.timeout

\* What GetVolumeInfo returns: the state of the volume, or an error; under a
\* context that is done, an error.
VolumeReads(w) == IF ContextDone(w) THEN {"err"} ELSE {ebs, "err"}

WaitDone(w, result) == [w EXCEPT !.pc = "done", !.result = result]

\* The read before the loop: only `available` ends the wait.
InitialRead(w, read) ==
    CASE read = "err" -> WaitDone(w, "InitialReadFailed")
      [] read = "available" -> WaitDone([w EXCEPT !.reads = Append(@, read)], "nil")
      [] OTHER -> [w EXCEPT !.pc = "select", !.reads = Append(@, read)]

\* The read of a tick.
TickRead(w, read) ==
    LET seen == [w EXCEPT !.ticked = FALSE,
                          !.reads = IF read = "err" THEN @ ELSE Append(@, read)]
    IN CASE read = "err" -> WaitDone(seen, "ReadFailed")
         [] read = "available" -> WaitDone(seen, "nil")
         [] read = "error" -> WaitDone(seen, "ErrorState")
         [] read \in {"deleted", "deleting"} -> WaitDone(seen, "VolumeGone")
         [] OTHER -> seen

WaitInitialRead ==
    /\ wait.pc = "start"
    /\ \E read \in VolumeReads(wait) : wait' = InitialRead(wait, read)
    /\ UNCHANGED <<ebs, mainVars, xlate, registryVars>>

\* select takes the tick.
WaitTick ==
    /\ wait.pc = "select"
    /\ wait.ticked
    /\ \E read \in VolumeReads(wait) : wait' = TickRead(wait, read)
    /\ UNCHANGED <<ebs, mainVars, xlate, registryVars>>

\* select takes ctx.Done().
WaitContextDone ==
    /\ wait.pc = "select"
    /\ ContextDone(wait)
    /\ wait' = WaitDone(wait, IF wait.elapsed >= wait.timeout /\ ~wait.cancelled
                                 THEN "Timeout" ELSE "Cancelled")
    /\ UNCHANGED <<ebs, mainVars, xlate, registryVars>>

\* A unit of time passes while the wait blocks in select; the ticker fires at
\* every multiple of the poll interval, and a tick is taken before more time
\* passes.
TimePasses ==
    /\ wait.pc = "select"
    /\ ~wait.ticked
    /\ ~ContextDone(wait)
    /\ wait' = [wait EXCEPT !.elapsed = @ + 1,
                            !.ticked = (wait.elapsed + 1) % wait.pollInterval = 0]
    /\ UNCHANGED <<ebs, mainVars, xlate, registryVars>>

\* The caller cancels the context it passed.
CallerCancels ==
    /\ wait.pc \in {"start", "select"}
    /\ ~wait.cancelled
    /\ wait' = [wait EXCEPT !.cancelled = TRUE]
    /\ UNCHANGED <<ebs, mainVars, xlate, registryVars>>

\* The cloud moves the volume to another state.
VolumeChanges ==
    /\ wait.pc \in {"start", "select"}
    /\ \E s \in VolumeStates :
          /\ \/ ebs = "in-use" /\ s \in {"available", "error", "deleting"}
             \/ ebs = "available" /\ s \in {"in-use", "deleting"}
             \/ ebs = "error" /\ s = "deleting"
             \/ ebs = "deleting" /\ s = "deleted"
          /\ ebs' = s
    /\ UNCHANGED <<wait, mainVars, xlate, registryVars>>

WaiterInit ==
    /\ NoMigration
    /\ xlate = NoTranslation
    /\ NoRegistry
    /\ ebs \in VolumeStates
    /\ \E p \in 1..MaxWait, t \in 1..MaxWait :
          wait = [NoWait EXCEPT !.pc = "start", !.pollInterval = p, !.timeout = t]

WaiterNext ==
    \/ WaitInitialRead
    \/ WaitTick
    \/ WaitContextDone
    \/ TimePasses
    \/ CallerCancels
    \/ VolumeChanges

\* Every call of WaitForVolumeDetach, with the cloud changing the volume and
\* the caller free to cancel.
WaiterSpec == WaiterInit /\ [][WaiterNext]_vars

-----------------------------------------------------------------------------
(* TranslatePV on its own *)

\* Strings the translator takes apart or puts together are sequences of
\* parts; "/" and "-" are parts of their own.
RECURSIVE Split(_, _)
Contains(str, sep) == \E k \in DOMAIN str : str[k] = sep

\* strings.Split: the pieces of str between the occurrences of sep.
Split(str, sep) ==
    IF ~Contains(str, sep) THEN <<str>>
    ELSE LET k == CHOOSE j \in DOMAIN str :
                     str[j] = sep /\ \A h \in 1..(j - 1) : str[h] # sep
         IN <<SubSeq(str, 1, k - 1)>> \o Split(SubSeq(str, k + 1, Len(str)), sep)

EBSDriver == "ebs.csi.aws.com"

ZoneKey == "topology.kubernetes.io/zone"

LegacyZoneKey == "failure-domain.beta.kubernetes.io/zone"

\* The legacy id aws://eu-west-1b/vol-legacy1.
LegacyZoneId == <<"aws:", "/", "/", "eu-west-1b", "/", "vol-legacy1">>

RECURSIVE IdsOfLen(_)
IdsOfLen(n) ==
    IF n = 0 THEN {<<>>}
    ELSE {Append(id, part) : id \in IdsOfLen(n - 1), part \in {"/", "aws:", "vol-1"}}

VolumeIds == {LegacyZoneId} \cup UNION {IdsOfLen(n) : n \in 0..MaxIdLen}

\* Spec.NodeAffinity of a source volume: absent, or the match expressions of
\* its required terms in order.
Affinities ==
    {[present |-> FALSE, exprs |-> <<>>], [present |-> TRUE, exprs |-> <<>>]} \cup
    {[present |-> TRUE, exprs |-> e] :
        e \in {<<[key |-> ZoneKey, values |-> <<"eu-west-1b">>]>>,
               <<[key |-> LegacyZoneKey, values |-> <<"us-east-1a">>]>>,
               <<[key |-> "kubernetes.io/hostname", values |-> <<"node-1">>]>>,
               <<[key |-> ZoneKey, values |-> <<>>]>>,
               <<[key |-> "kubernetes.io/hostname", values |-> <<"node-1">>],
                 [key |-> LegacyZoneKey, values |-> <<"us-east-1a", "us-east-1b">>]>>}}

\* Source volumes: nil, or a volume with a CSI source, a legacy
\* AWSElasticBlockStore source, or neither.
SourcePVs ==
    {[nil |-> TRUE]} \cup
    {[nil |-> FALSE, kind |-> src.kind, driver |-> src.driver, id |-> src.id,
      policy |-> policy, affinity |-> aff] :
        src \in {[kind |-> "csi", driver |-> d, id |-> id] :
                    d \in {EBSDriver, "efs.csi.aws.com"}, id \in VolumeIds}
                \cup {[kind |-> "legacy", driver |-> "", id |-> id] : id \in VolumeIds}
                \cup {[kind |-> "none", driver |-> "", id |-> <<>>]},
        policy \in {"Delete", "Retain"},
        aff \in Affinities}

TranslationConfigs ==
    [destNamespace : {<<"a">>, <<"a", "-", "b">>},
     destPVCName : {<<"c">>, <<"b", "-", "c">>},
     preserveNodeAffinity : BOOLEAN]

extractEBSVolumeIDFirstPart(pv) ==
    IF pv.kind = "csi"
    THEN IF pv.driver = EBSDriver
         THEN [err |-> "", id |-> pv.id]
         ELSE [err |-> "UnsupportedDriver", id |-> <<>>]
    ELSE IF pv.kind = "legacy"
    THEN [err |-> "",
          id |-> IF Contains(pv.id, "/") THEN Split(pv.id, "/")[1] ELSE pv.id]
    ELSE [err |-> "NotABlockVolume", id |-> <<>>]

extractEBSVolumeID(pv) ==
    IF pv.kind = "csi"
    THEN IF pv.driver = EBSDriver
         THEN [err |-> "", id |-> pv.id]
         ELSE [err |-> "UnsupportedDriver", id |-> <<>>]
    ELSE IF pv.kind = "legacy"
    THEN [err |-> "",
          id |-> IF Contains(pv.id, "/")
                 THEN LET parts == Split(pv.id, "/") IN parts[Len(parts)]
                 ELSE pv.id]
    ELSE [err |-> "NotABlockVolume", id |-> <<>>]

\* The first value of the first expression on a zone key; "" without one.
extractAvailabilityZone(pv) ==
    LET hits == {k \in DOMAIN pv.affinity.exprs :
                    /\ pv.affinity.exprs[k].key \in {ZoneKey, LegacyZoneKey}
                    /\ Len(pv.affinity.exprs[k].values) > 0}
    IN IF ~pv.affinity.present \/ hits = {} THEN ""
       ELSE LET k == CHOOSE j \in hits : \A h \in hits : j <= h
            IN pv.affinity.exprs[k].values[1]

buildNodeAffinityForZone(zone) ==
    [present |-> TRUE, exprs |-> <<[key |-> ZoneKey, values |-> <<zone>>]>>]

buildPVSourceKeepsSourceId(pv, volumeID) ==
    [kind |-> pv.kind, driver |-> pv.driver, id |-> pv.id]

buildPVSource(pv, volumeID) ==
    [kind |-> pv.kind, driver |-> pv.driver, id |-> volumeID]

\* fmt.Sprintf("migrated-%s-%s", config.DestNamespace, config.DestPVCName)
DestPVName(config) ==
    <<"migrated", "-">> \o config.destNamespace \o <<"-">> \o config.destPVCName

TranslatePV(pv, pvc, config) ==
    IF pv.nil THEN [err |-> "source PV cannot be nil"]
    ELSE IF pvc.nil THEN [err |-> "source PVC cannot be nil"]
    ELSE LET vid == extractEBSVolumeID(pv)
             az == extractAvailabilityZone(pv)
         IN IF vid.err # "" THEN [err |-> vid.err]
            ELSE [err |-> "",
                  volumeID |-> vid.id,
                  availabilityZone |-> az,
                  pv |-> [name |-> DestPVName(config),
                          policy |-> "Retain",
                          claimRef |-> [namespace |-> config.destNamespace,
                                        name |-> config.destPVCName],
                          source |-> buildPVSource(pv, vid.id),
                          affinity |->
                              IF config.preserveNodeAffinity /\ pv.affinity.present
                              THEN pv.affinity
                              ELSE IF az # "" THEN buildNodeAffinityForZone(az)
                              ELSE [present |-> FALSE, exprs |-> <<>>]],
                  pvc |-> [namespace |-> config.destNamespace,
                           name |-> config.destPVCName,
                           volumeName |-> DestPVName(config)]]

Translate ==
    /\ xlate.pc = "input"
    /\ xlate' = [xlate EXCEPT !.pc = "done",
                              !.result = TranslatePV(xlate.pv, xlate.pvc, xlate.config)]
    /\ UNCHANGED <<mainVars, waitVars, registryVars>>

TranslateInit ==
    /\ NoMigration
    /\ ebs = "in-use"
    /\ wait = NoWait
    /\ NoRegistry
    /\ \E pv \in SourcePVs, pvcNil \in BOOLEAN, config \in TranslationConfigs :
          xlate = [pc |-> "input", pv |-> pv, pvc |-> [nil |-> pvcNil], config |-> config,
                   result |-> [err |-> ""]]

\* Every call of TranslatePV on the inputs above.
TranslateSpec == TranslateInit /\ [][Translate]_vars

-----------------------------------------------------------------------------
(* The ClientManager cache on its own *)

Goroutines == 1..MaxCallers

\* Cache keys "<namespace>/<name>/<key>" of two kubeconfig Secrets.
CacheKeys == {"aqua/dest-a/kubeconfig", "aqua/dest-b/kubeconfig"}

\* No client: a map lookup that misses, a call that has not built or returned one.
\* A client records whether its key has been invalidated since the credential
\* record it was built from was read.
NoClient == [id |-> 0, outdated |-> FALSE]

IdleCaller == [op |-> "idle", pc |-> "idle", key |-> "", built |-> NoClient,
               result |-> NoClient, err |-> ""]

\* A goroutine enters GetClientFromSecret, InvalidateCache or ClearCache.
CallStarts(g) ==
    /\ caller[g].pc = "idle"
    /\ \E op \in {"get", "invalidate", "clear"}, key \in CacheKeys :
          caller' = [caller EXCEPT ![g] =
                        [IdleCaller EXCEPT !.op = op,
                                           !.key = IF op = "clear" THEN "" ELSE key,
                                           !.pc = IF op = "get" THEN "rlock" ELSE "lock"]]
    /\ UNCHANGED <<clientCache, cacheMu, minted, mainVars, waitVars, xlate>>

\* m.cacheMu.RLock(): waits while a writer holds the lock.
RLock(g) ==
    /\ caller[g].pc = "rlock"
    /\ cacheMu.writer = 0
    /\ cacheMu' = [cacheMu EXCEPT !.readers = @ \cup {g}]
    /\ caller' = [caller EXCEPT ![g].pc = "rlocked"]
    /\ UNCHANGED <<clientCache, minted, mainVars, waitVars, xlate>>

CacheLookupAlwaysMisses(c) ==
    [c EXCEPT !.pc = "fetch"]

\* The lookup under the read lock: a hit returns the cached client, a miss
\* goes on to fetch the Secret.
CacheLookup(c) ==
    IF clientCache[c.key] # NoClient
    THEN [c EXCEPT !.pc = "done", !.result = clientCache[c.key]]
    ELSE [c EXCEPT !.pc = "fetch"]

\* The cache read and m.cacheMu.RUnlock().
CacheRead(g) ==
    /\ caller[g].pc = "rlocked"
    /\ caller' = [caller EXCEPT ![g] = CacheLookup(caller[g])]
    /\ cacheMu' = [cacheMu EXCEPT !.readers = @ \ {g}]
    /\ UNCHANGED <<clientCache, minted, mainVars, waitVars, xlate>>

\* The Secret is read and a client built from its kubeconfig; either can fail.
BuildClient(g) ==
    /\ caller[g].pc = "fetch"
    /\ \/ /\ \E e \in {"failed to get kubeconfig secret", "secret does not contain key",
                         "failed to create client from kubeconfig"} :
                caller' = [caller EXCEPT ![g].pc = "done", ![g].err = e]
          /\ UNCHANGED minted
       \/ /\ minted < MaxClients
          /\ minted' = minted + 1
          /\ caller' = [caller EXCEPT
                            ![g].pc = "lock",
                            ![g].built = [id |-> minted + 1,
                                          outdated |-> FALSE]]
    /\ UNCHANGED <<clientCache, cacheMu, mainVars, waitVars, xlate>>

LockIgnoresReaders(g) ==
    /\ caller[g].pc = "lock"
    /\ cacheMu.writer = 0
    /\ cacheMu' = [cacheMu EXCEPT !.writer = g]
    /\ caller' = [caller EXCEPT ![g].pc = "locked"]
    /\ UNCHANGED <<clientCache, minted, mainVars, waitVars, xlate>>

\* m.cacheMu.Lock(): waits while anybody holds the lock.
Lock(g) ==
    /\ caller[g].pc = "lock"
    /\ cacheMu.writer = 0
    /\ cacheMu.readers = {}
    /\ cacheMu' = [cacheMu EXCEPT !.writer = g]
    /\ caller' = [caller EXCEPT ![g].pc = "locked"]
    /\ UNCHANGED <<clientCache, minted, mainVars, waitVars, xlate>>

\* The write under the lock: m.clientCache[cacheKey] = cc, delete, or a new map.
CacheWrite(c) ==
    CASE c.op = "get" -> [clientCache EXCEPT ![c.key] = c.built]
      [] c.op = "invalidate" -> [clientCache EXCEPT ![c.key] = NoClient]
      [] c.op = "clear" -> [k \in CacheKeys |-> NoClient]

\* The calls in flight after an invalidate of key: a client that was built
\* for the key and is not inserted yet comes from a record read before it.
AfterInvalidate(key) ==
    [h \in Goroutines |->
        IF caller[h].op = "get" /\ caller[h].key = key /\ caller[h].pc = "lock"
        THEN [caller[h] EXCEPT !.built.outdated = TRUE]
        ELSE caller[h]]

\* The write and m.cacheMu.Unlock(); GetClientFromSecret returns what it built.
WriteAndUnlock(g) ==
    /\ caller[g].pc = "locked"
    /\ clientCache' = CacheWrite(caller[g])
    /\ cacheMu' = [cacheMu EXCEPT !.writer = 0]
    /\ caller' = [IF caller[g].op = "invalidate" THEN AfterInvalidate(caller[g].key)
                                                ELSE caller
                     EXCEPT ![g].pc = "done", ![g].result = caller[g].built]
    /\ UNCHANGED <<minted, mainVars, waitVars, xlate>>

\* The call has returned; the goroutine is free for another.
CallReturns(g) ==
    /\ caller[g].pc = "done"
    /\ caller' = [caller EXCEPT ![g] = IdleCaller]
    /\ UNCHANGED <<clientCache, cacheMu, minted, mainVars, waitVars, xlate>>

RegistryInit ==
    /\ NoMigration
    /\ ebs = "in-use"
    /\ wait = NoWait
    /\ xlate = NoTranslation
    /\ clientCache = [k \in CacheKeys |-> NoClient]
    /\ cacheMu = [readers |-> {}, writer |-> 0]
    /\ caller = [g \in Goroutines |-> IdleCaller]
    /\ minted = 0

RegistryNext ==
    \/ \E g \in Goroutines : CallStarts(g)
    \/ \E g \in Goroutines : RLock(g)
    \/ \E g \in Goroutines : CacheRead(g)
    \/ \E g \in Goroutines : BuildClient(g)
    \/ \E g \in Goroutines : Lock(g)
    \/ \E g \in Goroutines : WriteAndUnlock(g)
    \/ \E g \in Goroutines : CallReturns(g)

\* Every interleaving of calls of the ClientManager by the goroutines.
RegistrySpec == RegistryInit /\ [][RegistryNext]_vars

-----------------------------------------------------------------------------
(* Properties *)

\* Something has been done for index j: its source pod was deleted, its
\* destination volume or claim exists, the destination group includes it,
\* or a reconcile is in flight for it.
ActedOn(j) ==
    \/ srcPod[j] # "Running"
    \/ dstPV[j] > 0 \/ dstPVC[j] > 0
    \/ dstSTS.exists /\ dstSTS.replicas > j
    \/ pc # "idle" /\ idx = j

\* C1 (Order): whenever anything has been done for an index k+1, the Ready
\* wait for index k has returned and the destination pod k is Ready.
C1_Order ==
    \A j \in Indices :
        (j > 0 /\ ActedOn(j)) => ((j - 1) \in readyObserved /\ dstPod[j - 1])

C1_Witness ==
    \E j \in Indices : j > 0 /\ pc = "waitPodDeletion" /\ idx = j /\ srcPod[j] = "Terminating"

\* C2 (Cloud gate): a step that creates the destination volume or claim of
\* index i, or creates or scales the destination group to i+1 replicas, is a
\* step of the volume-detach wait for i that read the cloud volume available.
C2_CloudGate ==
    [][\A i \in Indices :
          (\/ dstPV'[i] > 0 /\ dstPV[i] = 0
           \/ dstPVC'[i] > 0 /\ dstPVC[i] = 0
           \/ dstSTS' # dstSTS /\ dstSTS'.replicas = i + 1)
          => (pc = "waitDetach" /\ idx = i /\ vol[i] = "available")]_vars

C2_Witness ==
    /\ pc = "waitPodReady" /\ idx = 1
    /\ dstPV[1] > 0 /\ dstPVC[1] > 0 /\ dstSTS.exists /\ dstSTS.replicas = 2

\* C3 (At-most-one-attachment): a cloud volume only ever goes from in use by
\* the source to available and from available to in use by the destination
\* (so each edge is taken at most once and the source never re-attaches), and
\* the volume of every migrated index has taken both edges.
C3_OneAttachment ==
    /\ [][\A i \in Indices :
             vol'[i] # vol[i] =>
                 <<vol[i], vol'[i]>> \in {<<"in-use-src", "available">>,
                                          <<"available", "in-use-dst">>}]_vars
    /\ [](\A i \in Indices :
             (i < status.currentIndex \/ \E k \in DOMAIN status.migratedPods :
                                             status.migratedPods[k].index = i)
             => vol[i] = "in-use-dst")

C3_Witness ==
    /\ status.phase = "MigratingPods" /\ status.currentIndex = 1
    /\ Len(status.migratedPods) = 1 /\ vol[0] = "in-use-dst"
    /\ lastStep = "crash"

\* C4 (Retain safety): every volume named in status.preservedPVs is a source
\* volume whose reclaim policy is Retain.
C4_RetainSafety ==
    \A k \in DOMAIN status.preservedPVs :
        LET p == status.preservedPVs[k]
        IN p \in DOMAIN srcPV /\ srcPV[p].policy = "Retain"

C4_Witness ==
    /\ status.phase = "MigratingPods"
    /\ status.preservedPVs # <<>>
    /\ \A i \in Indices : i \in Range(status.preservedPVs)

\* C5 (No data loss at Finalize): a source claim or volume object that has
\* been deleted belongs to a volume whose reclaim policy is Retain.
C5_NoDataLoss ==
    /\ \A i \in Indices : ~srcPVC[i].exists => srcPV[i].policy = "Retain"
    /\ \A p \in DOMAIN srcPV : ~srcPV[p].exists => srcPV[p].policy = "Retain"

\* C6 (Monotonic progress): a step never lowers the persisted currentIndex,
\* and changes the persisted migrated list only by appending one record whose
\* index is greater than every index in the list.
C6_MonotonicProgress ==
    [][/\ status'.currentIndex >= status.currentIndex
       /\ \/ status'.migratedPods = status.migratedPods
          \/ /\ Len(status'.migratedPods) = Len(status.migratedPods) + 1
             /\ SubSeq(status'.migratedPods, 1, Len(status.migratedPods)) = status.migratedPods
             /\ \A k \in DOMAIN status.migratedPods :
                   status.migratedPods[k].index
                       < status'.migratedPods[Len(status'.migratedPods)].index]_vars

C6_Witness ==
    /\ status.currentIndex = 2
    /\ Len(status.migratedPods) = 2
    /\ status.migratedPods[1].index = 0 /\ status.migratedPods[2].index = 1

\* C7 (Terminal stability): once the persisted phase is Completed or Failed,
\* no step changes the status or creates, updates or deletes an object of
\* either cluster; what is left to happen is what the clusters do themselves
\* (a deleted pod ends, the orphaned group is collected, a pod becomes Ready).
C7_TerminalStability ==
    [][status.phase \in Terminal =>
          /\ status' = status
          /\ srcPVC' = srcPVC /\ srcPV' = srcPV
          /\ dstPV' = dstPV /\ dstPVC' = dstPVC /\ dstSTS' = dstSTS
          /\ srcSTS' # srcSTS => (srcSTS = "Deleting" /\ srcSTS' = "Absent")
          /\ \A i \in Indices :
                srcPod'[i] # srcPod[i] => (srcPod[i] = "Terminating" /\ srcPod'[i] = "Absent")]_vars

C7_Witness == status.phase \in Terminal /\ lastStep = "terminal"

PhaseEdges ==
    {<<"", "Pending">>,
     <<"Pending", "PreFlightChecks">>,
     <<"PreFlightChecks", "FreezingSource">>,
     <<"FreezingSource", "MigratingPods">>,
     <<"MigratingPods", "Finalizing">>,
     <<"Finalizing", "Completed">>}
        \cup {<<a, "Failed">> : a \in Active}

\* C8 (Phase order): the persisted phase changes only along the edges of the
\* lifecycle (a new resource gets Pending first), and from MigratingPods on
\* the source has been frozen: the group was orphaned and SourceFrozen set.
C8_PhaseOrder ==
    /\ [][status'.phase # status.phase => <<status.phase, status'.phase>> \in PhaseEdges]_vars
    /\ [](status.phase \in {"MigratingPods", "Finalizing", "Completed"}
             => ("SourceFrozen" \in status.conditions /\ srcSTS # "Present"))

C8_Witness == status.phase = "Completed" /\ lastStep = "finalize"

\* C9 (Happy path liveness): on the happy path the migration eventually is
\* Completed with currentIndex = N.
C9_HappyPathCompletes ==
    <>(status.phase = "Completed" /\ status.currentIndex = Replicas)

\* C10 (Resumability): when reconciles are interrupted but nothing else goes
\* wrong, no re-attempt of an index fails: a migration that was frozen is
\* Failed only for the reason the uninterrupted happy path already fails for
\* (the source group is gone when the destination group is to be created).
C10_ResumedAttemptSucceeds ==
    (status.phase = "Failed" /\ "SourceFrozen" \in status.conditions)
        => status.lastError = "source StatefulSet no longer available"

\* C11 (Timeout fails the migration): a step in which the volume-detach wait
\* or the destination Ready wait of index i reaches its deadline persists
\* phase Failed (a status write that the API server rejects leaves the status
\* as it was, and the reconcile is retried); either way currentIndex stays i,
\* the migrated list is unchanged and has no record for i, and nothing of the
\* destination cluster is touched, the pods of the indices below i included.
C11_TimeoutFails ==
    [][(lastStep' = "timeout" /\ pc \in {"waitDetach", "waitPodReady"}) =>
          /\ status' = status \/ status'.phase = "Failed"
          /\ status.currentIndex = idx /\ status'.currentIndex = idx
          /\ status'.migratedPods = status.migratedPods
          /\ \A k \in DOMAIN status'.migratedPods : status'.migratedPods[k].index # idx
          /\ dstVars' = dstVars
          /\ \A j \in Indices : j < idx => dstPod'[j] = dstPod[j]]_vars

C11_Witness ==
    /\ status.phase = "Failed" /\ lastStep = "timeout"
    /\ status.lastError = "destination pod not ready"
    /\ status.currentIndex = 1 /\ idx = 1 /\ Len(status.migratedPods) = 1
    /\ dstPod[0] /\ ~dstPod[1]

\* C12 (Source pod deletes): a step that deletes source pod j is a step of a
\* reconcile in phase MigratingPods with currentIndex = j, and every source
\* pod above currentIndex is running as it was, also once the migration has
\* failed at currentIndex.
C12_SourcePodDeletes ==
    /\ [][\A j \in Indices :
             (srcPod[j] = "Running" /\ srcPod'[j] # "Running")
             => (status.phase = "MigratingPods" /\ status.currentIndex = j)]_vars
    /\ [](\A j \in Indices : j > status.currentIndex => srcPod[j] = "Running")

C12_Witness ==
    /\ status.phase = "Failed" /\ status.currentIndex = 0
    /\ srcPod[0] = "Absent" /\ 1 \in Indices /\ srcPod[1] = "Running"

\* The clusters and the cloud are as the migration found them, as far as a
\* state shows it: nothing deleted, stopped, detached or created.
Untouched ==
    /\ srcSTS = "Present"
    /\ \A i \in Indices : srcPod[i] = "Running" /\ vol[i] = "in-use-src"
    /\ \A c \in DOMAIN srcPVC : srcPVC[c].exists
    /\ \A p \in DOMAIN srcPV : srcPV[p].exists
    /\ \A i \in Indices : dstPV[i] = 0 /\ dstPVC[i] = 0 /\ ~dstPod[i]
    /\ dstSTS.replicas = 0

\* C13 (Preflight mutates nothing): no step taken in phase Pending or
\* PreFlightChecks changes an object of the source or destination cluster or
\* a cloud volume; a pre-flight reconcile that finds a group of the same name
\* in the destination never moves on to FreezingSource, and a step from
\* PreFlightChecks to Failed leaves preservedPVs empty and currentIndex 0;
\* a migration that failed before passing the pre-flight checks has touched
\* nothing.
C13_PreflightMutatesNothing ==
    /\ [][status.phase \in {"Pending", "PreFlightChecks"} =>
             /\ srcVars' = srcVars /\ dstVars' = dstVars /\ vol' = vol
             /\ (status.phase = "PreFlightChecks" /\ dstSTS.exists)
                    => status'.phase \in {"PreFlightChecks", "Failed"}
             /\ status'.phase = "Failed"
                    => (status'.preservedPVs = <<>> /\ status'.currentIndex = 0)]_vars
    /\ []((status.phase = "Failed" /\ "PreFlightChecks" \notin status.conditions)
             => (Untouched /\ status.preservedPVs = <<>> /\ status.currentIndex = 0))

C13_Witness ==
    /\ status.phase = "Failed" /\ lastStep = "preflight" /\ dstSTS.exists
    /\ status.lastError = "StatefulSet already exists in destination namespace"

\* C14 (Freeze scope): once Freeze has completed, the volume bound to the
\* claim of the source namespace that is not one of the group's is not
\* recorded in preservedPVs, and its volume object is never deleted.
C14_FreezeScope ==
    /\ status.phase \in {"MigratingPods", "Finalizing", "Completed"}
           => Foreign \notin Range(status.preservedPVs)
    /\ Foreign \in DOMAIN srcPV => srcPV[Foreign].exists

\* C15 (Finalize is best-effort): a Finalize reconcile persists phase
\* Completed with completionTime set whatever the deletes of the source
\* claims and volumes returned; it persists Failed only when it could not
\* obtain the source client, and then it has deleted nothing (a status write
\* that the API server rejects leaves the status as it was, and the
\* reconcile is retried).
C15_FinalizeBestEffort ==
    [][(status.phase = "Finalizing" /\ lastStep' = "finalize") =>
          \/ status' = status
          \/ status'.phase = "Completed" /\ status'.completionTime
                /\ "Complete" \in status'.conditions
          \/ /\ status'.phase = "Failed"
             /\ status'.lastError = "Failed to get source client"
             /\ srcPVC' = srcPVC /\ srcPV' = srcPV]_vars

\* Completed although the delete of a source claim failed (its volume object
\* was deleted).
C15_Witness ==
    /\ status.phase = "Completed" /\ status.completionTime /\ lastStep = "finalize"
    /\ \E i \in Indices : srcPVC[i].exists /\ ~srcPV[i].exists

\* C16 (Failed status, no rollback): whenever the persisted phase is Failed,
\* lastError is not empty, completionTime is set and the Failed condition is
\* present; and the reconcile that moves the migration to Failed deletes
\* nothing and undoes nothing: the source group, pods and claims and the
\* cloud volumes are as before the step, no source volume is deleted or set
\* back from Retain, and every destination object that existed before the
\* step exists unchanged after it.
C16_FailedNoRollback ==
    /\ [](status.phase = "Failed" =>
             /\ status.lastError # ""
             /\ status.completionTime
             /\ "Failed" \in status.conditions)
    /\ [][(status.phase # "Failed" /\ status'.phase = "Failed") =>
             /\ srcSTS' = srcSTS /\ srcPod' = srcPod /\ srcPVC' = srcPVC /\ vol' = vol
             /\ \A p \in DOMAIN srcPV :
                   /\ srcPV'[p].exists = srcPV[p].exists
                   /\ srcPV[p].policy = "Retain" => srcPV'[p].policy = "Retain"
             /\ \A i \in Indices :
                   /\ dstPV[i] > 0 => dstPV'[i] = dstPV[i]
                   /\ dstPVC[i] > 0 => dstPVC'[i] = dstPVC[i]
             /\ dstSTS.exists => dstSTS' = dstSTS
             /\ dstPod' = dstPod]_vars

\* Failed at the creation of the destination group: the volume and claim
\* created just before are left in the destination.
C16_Witness ==
    /\ status.phase = "Failed" /\ status.completionTime /\ "Failed" \in status.conditions
    /\ status.lastError = "source StatefulSet no longer available"
    /\ dstPV[0] > 0 /\ dstPVC[0] > 0 /\ ~dstSTS.exists

\* The reasons failMigration is given when a call to a cluster failed with
\* something else than NotFound or AlreadyExists, which is where a transport
\* or server-side error ends up.
TransientReasons ==
    {"Failed to check destination namespace",
     "Failed to check destination StatefulSet",
     "Failed to check destination service",
     "failed to delete source pod",
     "failed to create destination PV",
     "failed to create destination PVC"}

\* C17 (Transient errors are retried): a transient error of a cluster API
\* leaves phase and currentIndex as they were, so the migration is never
\* Failed with such an error as its reason.
C17_TransientErrorsRetried ==
    status.phase = "Failed" => status.lastError \notin TransientReasons

\* C18 (Finalizer guard): the migration resource is not removed while its
\* phase is Pending, PreFlightChecks, FreezingSource, MigratingPods or
\* Finalizing.
C18_FinalizerGuard == crState = "gone" => status.phase \notin Active

\* C19 (Headless service check): a pre-flight reconcile whose other checks
\* pass and that does not find the service named by the source group in the
\* destination namespace persists Failed when spec.force is false and
\* FreezingSource when it is true; when the group names no service the check
\* is skipped and FreezingSource is persisted whatever the destination holds
\* (a status write that the API server rejects leaves the status as it was,
\* and the reconcile is retried).
C19_HeadlessServiceCheck ==
    [][status.phase = "PreFlightChecks" =>
          /\ lastStep' = "preflight-service-missing" =>
                \/ status' = status
                \/ /\ status'.phase = "Failed"
                   /\ status'.lastError = "Headless service not found in destination namespace"
          /\ lastStep' \in {"preflight-service-missing-force", "preflight-no-service-name"} =>
                \/ status' = status
                \/ /\ status'.phase = "FreezingSource"
                   /\ "PreFlightChecks" \in status'.conditions]_vars

C19_Witness ==
    /\ lastStep = "preflight-service-missing-force"
    /\ status.phase = "FreezingSource" /\ "PreFlightChecks" \in status.conditions

\* C20 (Idempotent destination create): no step writes a destination volume
\* or claim that exists, and when only interruptions go wrong the creation
\* of the volume and claim of an index never fails, also when it is run
\* again on the objects an interrupted attempt left.
C20_IdempotentCreate ==
    /\ [][\A i \in Indices :
             /\ dstPV[i] > 0 => dstPV'[i] = dstPV[i]
             /\ dstPVC[i] > 0 => dstPVC'[i] = dstPVC[i]]_vars
    /\ [](status.lastError \notin {"failed to create destination PV",
                                    "failed to create destination PVC"})

\* The creation has run again on an existing volume and claim and has gone
\* on to the Ready wait.
C20_Witness ==
    /\ lastStep = "detached-again" /\ pc = "waitPodReady"
    /\ dstPV[idx] = 1 /\ dstPVC[idx] = 1

\* C21 (Dense migrated list): in every persisted status the migrated list has
\* currentIndex records and its k-th record (counting from 0) is the one of
\* index k.
C21_MigratedDense ==
    /\ Len(status.migratedPods) = status.currentIndex
    /\ \A k \in DOMAIN status.migratedPods : status.migratedPods[k].index = k - 1

C21_Witness ==
    /\ status.phase = "Completed" /\ Len(status.migratedPods) = 2
    /\ status.migratedPods[2].index = 1 /\ status.currentIndex = 2

\* C22 (Index bounds): in every state 0 <= currentIndex <= totalReplicas; no
\* step taken after the pre-flight phase changes totalReplicas; and in phase
\* Finalizing or Completed currentIndex = totalReplicas.
C22_IndexBounds ==
    /\ [](/\ 0 <= status.currentIndex
          /\ status.currentIndex <= status.totalReplicas
          /\ status.phase \in {"Finalizing", "Completed"}
                => status.currentIndex = status.totalReplicas)
    /\ [][status.phase \notin {"", "Pending", "PreFlightChecks"}
             => status'.totalReplicas = status.totalReplicas]_vars

C22_Witness ==
    /\ status.phase = "Finalizing" /\ status.totalReplicas = 2 /\ status.currentIndex = 2

\* C23: WaitForVolumeDetach never reports a volume it has read in state error,
\* deleted or deleting as a timeout: such a read, the initial one included,
\* ends the wait with the failure of that state.
C23_BadStateNotTimeout ==
    wait.result = "Timeout" => Range(wait.reads) \cap {"error", "deleted", "deleting"} = {}

\* The part of a volume id after its last "/"; the whole id without one.
AfterLastSlash(id) ==
    LET slashes == {k \in DOMAIN id : id[k] = "/"}
    IN IF slashes = {} THEN id
       ELSE SubSeq(id, (CHOOSE k \in slashes : \A h \in slashes : h <= k) + 1, Len(id))

\* C24: the cloud id of a translation is the CSI volume handle unchanged when
\* the driver is ebs.csi.aws.com, and the part of the legacy id after its
\* last "/" (the whole id without one); translation fails with
\* UnsupportedDriver for any other CSI driver, and fails for a volume with
\* neither source, a nil volume or a nil claim.
C24_VolumeIdExtraction ==
    xlate.pc = "done" =>
        LET pv == xlate.pv
            r == xlate.result
        IN IF pv.nil \/ xlate.pvc.nil THEN r.err # ""
           ELSE /\ pv.kind = "csi" /\ pv.driver = EBSDriver
                    => r.err = "" /\ r.volumeID = pv.id
                /\ pv.kind = "csi" /\ pv.driver # EBSDriver => r.err = "UnsupportedDriver"
                /\ pv.kind = "legacy" => r.err = "" /\ r.volumeID = AfterLastSlash(pv.id)
                /\ pv.kind = "none" => r.err # ""

C24_Witness ==
    /\ xlate.pc = "done"
    /\ ~xlate.pv.nil /\ ~xlate.pvc.nil
    /\ xlate.pv.kind = "legacy"
    /\ xlate.pv.id = <<"aws:", "/", "vol-1">>
    /\ xlate.result.err = ""
    /\ xlate.result.volumeID = <<"vol-1">>

\* C25: a successful translation returns a volume named
\* migrated-<destNamespace>-<destClaimName> with reclaim policy Retain and a
\* claim reference to (destNamespace, destClaimName), a claim whose
\* volumeName is that volume's name, and a volume source of the source's kind
\* whose handle or id is the extracted cloud id.
C25_PreBoundPair ==
    xlate.pc = "done" /\ xlate.result.err = "" =>
        LET r == xlate.result
            cfg == xlate.config
        IN /\ r.pv.name = <<"migrated", "-">> \o cfg.destNamespace \o <<"-">> \o cfg.destPVCName
           /\ r.pv.policy = "Retain"
           /\ r.pv.claimRef = [namespace |-> cfg.destNamespace, name |-> cfg.destPVCName]
           /\ r.pvc.namespace = cfg.destNamespace /\ r.pvc.name = cfg.destPVCName
           /\ r.pvc.volumeName = r.pv.name
           /\ r.pv.source.kind = xlate.pv.kind
           /\ r.pv.source.id = r.volumeID

C25_Witness ==
    /\ xlate.pc = "done" /\ xlate.result.err = ""
    /\ xlate.pv.policy = "Delete" /\ xlate.result.pv.policy = "Retain"
    /\ xlate.pv.kind = "legacy" /\ xlate.pv.id # xlate.result.volumeID
    /\ xlate.result.pv.name = <<"migrated", "-", "a", "-", "c">>
    /\ xlate.result.pvc.volumeName = <<"migrated", "-", "a", "-", "c">>

\* C26: translating a volume with the legacy id aws://eu-west-1b/vol-legacy1
\* and no node-affinity expressions yields volume id vol-legacy1, availability
\* zone eu-west-1b, and a destination volume with the synthesized affinity
\* topology.kubernetes.io/zone In [eu-west-1b].
C26_LegacyZonePreserved ==
    /\ xlate.pc = "done"
    /\ ~xlate.pv.nil /\ ~xlate.pvc.nil
    /\ xlate.pv.kind = "legacy" /\ xlate.pv.id = LegacyZoneId
    /\ xlate.pv.affinity.exprs = <<>>
    => /\ xlate.result.err = ""
       /\ xlate.result.volumeID = <<"vol-legacy1">>
       /\ xlate.result.availabilityZone = "eu-west-1b"
       /\ xlate.result.pv.affinity =
              [present |-> TRUE, exprs |-> <<[key |-> ZoneKey, values |-> <<"eu-west-1b">>]>>]

\* Goroutine g finishes a call in this step.
Finishes(g) == caller[g].pc # "done" /\ caller'[g].pc = "done"

\* C27 as stated: once a client is cached under a key, every getClient for
\* the key returns that client and nothing but invalidate or clear changes
\* what is stored under the key.
C27_NeverReplaced ==
    [][/\ \A g \in Goroutines :
             /\ caller[g].op = "get" /\ Finishes(g) /\ caller'[g].err = ""
             /\ clientCache[caller[g].key] # NoClient
             => caller'[g].result = clientCache[caller[g].key]
       /\ \A k \in CacheKeys :
             clientCache[k] # NoClient /\ clientCache'[k] # clientCache[k]
             => \E g \in Goroutines :
                   Finishes(g) /\ caller[g].op \in {"invalidate", "clear"}]_vars

\* C27: once a client is cached under a key, every getClient that finds it
\* on its cache read returns that client, and what is stored under the key
\* changes only by invalidate or clear, or by the insert of a getClient that
\* had missed on its own cache read (the last writer wins).
C27_ReplacedOnlyByMiss ==
    [][/\ \A g \in Goroutines :
             /\ caller[g].pc = "rlocked" /\ caller'[g] # caller[g]
             /\ clientCache[caller[g].key] # NoClient
             => /\ Finishes(g)
                /\ caller'[g].result = clientCache[caller[g].key]
                /\ clientCache' = clientCache
       /\ \A k \in CacheKeys :
             clientCache[k] # NoClient /\ clientCache'[k] # clientCache[k]
             => \E g \in Goroutines :
                   /\ Finishes(g)
                   /\ \/ caller[g].op \in {"invalidate", "clear"}
                      \/ /\ caller[g].op = "get" /\ caller[g].key = k
                         /\ caller[g].built # NoClient
                         /\ clientCache'[k] = caller[g].built]_vars

C27_Witness ==
    \E g \in Goroutines :
        /\ caller[g].op = "get" /\ caller[g].pc = "done"
        /\ caller[g].built = NoClient
        /\ caller[g].result # NoClient
        /\ caller[g].result = clientCache[caller[g].key]

\* C28: getClient calls that race on a miss for one key never touch the map
\* while another goroutine writes it, each of them that built a client
\* returns it (a call fails only before it has a client), and each insert
\* leaves under the key the client of the caller that wrote last, the other
\* keys as they were.
C28_RacingMisses ==
    /\ [](\A g \in Goroutines :
            caller[g].pc = "locked"
            => /\ cacheMu.writer = g /\ cacheMu.readers = {}
               /\ \A h \in Goroutines \ {g} : caller[h].pc \notin {"rlocked", "locked"})
    /\ [](\A g \in Goroutines :
            caller[g].op = "get" /\ caller[g].pc = "done"
            => IF caller[g].built # NoClient
               THEN caller[g].err = "" /\ caller[g].result = caller[g].built
               ELSE caller[g].err # "" \/ caller[g].result # NoClient)
    /\ [][\A g \in Goroutines :
             caller[g].op = "get" /\ caller[g].pc = "locked" /\ Finishes(g)
             => clientCache' = [clientCache EXCEPT ![caller[g].key] = caller[g].built]]_vars

C28_Witness ==
    /\ caller[1].op = "get" /\ caller[1].pc = "done"
    /\ caller[2].op = "get" /\ caller[2].pc = "done"
    /\ caller[1].key = caller[2].key
    /\ caller[1].result.id = 1 /\ caller[2].result.id = 2
    /\ caller[1].built.id = 1 /\ caller[2].built.id = 2
    /\ clientCache[caller[1].key] = caller[1].built

\* C29: the destination group is created from a spec of the source group
\* captured before orphaning, so no migration fails because the source group
\* is gone when the destination group is to be created.
C29_GroupSpecSnapshotted ==
    ~(/\ status.phase = "Failed"
      /\ "SourceFrozen" \in status.conditions
      /\ status.lastError = "source StatefulSet no longer available")

\* C30: a Freeze reconcile that runs again after the reclaim policies were
\* patched and the source group was orphaned (the status write of the first
\* attempt failed) enters MigratingPods with currentIndex 0 and the same
\* preserved volumes, or leaves the status as it was when its write is
\* rejected again; it does not fail the migration.
C30_FreezeResumes ==
    [][(lastStep' = "freeze" /\ status.phase = "FreezingSource" /\ srcSTS # "Present")
          => \/ status' = status
             \/ /\ status'.phase = "MigratingPods"
                /\ status'.currentIndex = 0
                /\ Range(status'.preservedPVs) = {c \in DOMAIN srcPVC : srcPVC[c].bound}]_vars

\* C31: when the destination volume or claim of index i is created, source
\* pod i does not exist in the source cluster, and the reconcile that creates
\* them has seen it absent: its wait for the deletion ended on not-found, or
\* its first read of the pod returned not-found; a read that failed does not
\* count as absence.
C31_SourcePodAbsentAtCreate ==
    [][\A i \in Indices :
          (dstPV[i] = 0 /\ dstPV'[i] > 0) \/ (dstPVC[i] = 0 /\ dstPVC'[i] > 0)
          => /\ srcPod[i] = "Absent"
             /\ lastStep \in {"pod-gone", "migrate-pod-absent"}]_vars

\* C32: a reconcile persists at most one transition. Its status write is its
\* last step (a reconcile that is still in flight has written nothing); the
\* write raises currentIndex by at most 1 or changes the phase, never both;
\* and the move from MigratingPods to Finalizing is made by a reconcile that
\* touches no pod, volume, claim or group.
C32_OneTransition ==
    [][/\ pc' # "idle" => status' = status
       /\ status'.currentIndex \in {status.currentIndex, status.currentIndex + 1}
       /\ status'.currentIndex # status.currentIndex => status'.phase = status.phase
       /\ (status.phase = "MigratingPods" /\ status'.phase = "Finalizing")
             => /\ pc = "idle"
                /\ status'.migratedPods = status.migratedPods
                /\ UNCHANGED <<srcVars, vol, dstVars>>]_vars

C32_Witness ==
    /\ status.phase = "Finalizing" /\ lastStep = "finalizing"
    /\ Len(status.migratedPods) = 2 /\ status.currentIndex = 2

C34_CancelRestartable ==
    [][(pc # "idle" /\ lastStep' = "cancelled")
          => /\ status' = status
             /\ status'.phase = "MigratingPods"
             /\ status'.currentIndex = idx
             /\ pc' = "idle"
             /\ ~AllMigrated(status') /\ MigrateIndex(status') = idx]_vars

C34_Witness ==
    /\ lastStep = "cancelled" /\ pc = "idle"
    /\ status.phase = "MigratingPods" /\ status.currentIndex = 1 /\ idx = 1
    /\ dstPV[1] > 0 /\ dstPVC[1] = 0

\* C35: a finished WaitForVolumeDetach returned success if and only if one of
\* its reads reported available; when its deadline passed and no read had
\* reported available, error, deleted or deleting, it failed with the Timeout
\* that names the volume and the timeout; and when the caller cancelled, it
\* did not fail with that Timeout.
C35_WaitOutcome ==
    wait.pc = "done" =>
        /\ wait.result = "nil" <=> "available" \in Range(wait.reads)
        /\ (/\ ~wait.cancelled
            /\ wait.elapsed >= wait.timeout
            /\ Range(wait.reads) \cap {"available", "error", "deleted", "deleting"} = {})
           => wait.result = "Timeout"
        /\ wait.cancelled => wait.result # "Timeout"

\* The phases before Finalizing.
BeforeFinalize == {"", "Pending", "PreFlightChecks", "FreezingSource", "MigratingPods"}

SourceObjectsExist ==
    /\ \A c \in DOMAIN srcPVC : srcPVC[c].exists
    /\ \A p \in DOMAIN srcPV : srcPV[p].exists

\* C36: a step that deletes a source claim or a source volume object is a
\* step of a reconcile in phase Finalizing; in every earlier phase the source
\* claims and volume objects all exist, and they all exist in the Failed
\* state a step from an earlier phase ends in.
C36_DeletesOnlyInFinalize ==
    /\ [][(\/ \E c \in DOMAIN srcPVC : srcPVC[c].exists /\ ~srcPVC'[c].exists
           \/ \E p \in DOMAIN srcPV : srcPV[p].exists /\ ~srcPV'[p].exists)
          => status.phase = "Finalizing"]_vars
    /\ [](status.phase \in BeforeFinalize => SourceObjectsExist)
    /\ [][status.phase \in BeforeFinalize /\ status'.phase = "Failed"
          => SourceObjectsExist']_vars

C36_Witness ==
    /\ status.phase = "Failed" /\ status.currentIndex = 1 /\ 1 \in Indices
    /\ srcSTS = "Absent" /\ srcPod[0] = "Absent"
    /\ \A c \in DOMAIN srcPVC : srcPVC[c].exists
    /\ \A p \in DOMAIN srcPV : srcPV[p].exists /\ srcPV[p].policy = "Retain"

C38_Terminates ==
    /\ <>(status.phase \in {"Completed", "Failed"})
    /\ \A w \in {"waitPodDeletion", "waitDetach", "waitPodReady"} : (pc = w) ~> (pc = "idle")

C38_Witness ==
    /\ status.phase = "Failed" /\ lastStep = "timeout"
    /\ status.currentIndex = 1 /\ pc = "idle"

\* C39: destination volume names are injective: the name a translation gives
\* the destination volume is not the name a translation for any other pair
\* (destNamespace, destClaimName) gives its volume.
C39_InjectiveNames ==
    xlate.pc = "done" /\ xlate.result.err = "" =>
        \A other \in TranslationConfigs :
            <<other.destNamespace, other.destPVCName>>
                    # <<xlate.config.destNamespace, xlate.config.destPVCName>>
                => TranslatePV(xlate.pv, xlate.pvc, other).pv.name # xlate.result.pv.name

\* C40: a client whose key was invalidated after its credential record was
\* read is never in the cache and is never returned by getClient.
C40_InvalidateNotUndone ==
    /\ \A k \in CacheKeys : ~clientCache[k].outdated
    /\ \A g \in Goroutines :
          caller[g].op = "get" /\ caller[g].pc = "done" => ~caller[g].result.outdated

====
